---- MODULE Spec2Model ----
(***************************************************************************)
(* A model of the EAV ("errors as values") module, src/mod.ts.  The file   *)
(* holds two generations of the same API: the first version (lines 1-59:   *)
(* Err, isErr, Ok, CaptureErr(fn, name), IgnoreErr) and the second version *)
(* (lines 61-215: Err with a cause, the chain-walking isErr, Ok,           *)
(* CaptureErr(name, callback, message), UnwrapErr).  Both are modelled;    *)
(* definitions of the first version carry the suffix V1.                   *)
(*                                                                         *)
(* The state is the JavaScript heap of error objects (identity = index),   *)
(* the promises created by asynchronous CaptureErr calls, and a record of  *)
(* the last call made on the module with its outcome.                      *)
(***************************************************************************)
EXTENDS Integers, Sequences, FiniteSets, TLC

\* ------------------------------------------------------------------ bounds
MaxObjs == 3      \* objects on the heap
MaxCaptures == 1  \* CaptureErr calls in one run
StackLimit == 6   \* call-stack frames available to isErr's recursion
MaxFetches == 2   \* calls of the README's fetchUser in one run

\* ------------------------------------------------------------------ values
\* JavaScript's undefined as the value of a name, message or tag parameter.
Undef == "<undefined>"

\* Every JavaScript value is a record [t, i]: t the kind, i an index.
Undefined == [t |-> "undefined", i |-> 0]
Null == [t |-> "null", i |-> 0]
Str1 == [t |-> "string", i |-> 1]
Bool(b) == [t |-> "boolean", i |-> IF b THEN 1 ELSE 0]
Obj(k) == [t |-> "obj", i |-> k]
Prom(k) == [t |-> "promise", i |-> k]

Prims == {Undefined, Null, Str1}

\* The tags callers pass; the empty string is a legal string tag.
Tags == {"", "A", "B"}
\* What a caller may pass as isErr's optional name.
QueryNames == Tags \cup {Undef, "Error"}

VARIABLES
    defineFields,  \* the build: TRUE when class fields have [[Define]] semantics
    heap,          \* sequence of objects [cls, name, message, cause] and, as
                   \* history, the name and cause their constructor was given
    calls,         \* asynchronous CaptureErr calls, with their two promises
    captures,      \* the number of CaptureErr calls made so far
    pre,           \* the heap as it was before the last call
    last,          \* the last call on the module and its outcome
    fetch          \* the calls of the README's fetchUser: for each, where it
                   \* stands, the sources it has called and what each returned

vars == <<defineFields, heap, calls, captures, pre, last, fetch>>

Objs(h) == {Obj(k) : k \in 1..Len(h)}
Proms(c) == {Prom(k) : k \in 1..Len(c)}

\* `value instanceof Error`: an object whose class is Error or a subclass.
InstanceOfError(h, v) == v.t = "obj" /\ h[v.i].cls \in {"Err", "Error"}

\* JavaScript truthiness of an optional string (`if (name)`): undefined and
\* the empty string are falsy.
Truthy(s) == s # Undef /\ s # ""

\* `a ?? b`
Coalesce(a, b) == IF a = Undef THEN b ELSE a

\* `x ?? d` takes the default d exactly when x is null or undefined.
Nullish(v) == v = Null \/ v = Undefined

\* -------------------------------------------------------------- class Err
\* new Error(message, { cause }) of the built-in class named name: the name
\* is inherited from the prototype; a message of undefined leaves the
\* inherited "".
PlainError(name, message, cause) ==
    [cls |-> "Error", name |-> name,
     message |-> IF message = Undef THEN "" ELSE message, cause |-> cause,
     ctorName |-> Undef, ctorCause |-> cause]

\* An object that is not an Error (thrown with `throw {...}`).
PlainObject ==
    [cls |-> "Object", name |-> Undef, message |-> Undef, cause |-> 0,
     ctorName |-> Undef, ctorCause |-> 0]

\* The class body declares the fields `name!: N` and `cause?: Err` without
\* initialisers.  What that does depends on the build.  With
\* useDefineForClassFields (Deno's default, and what type stripping of the
\* source gives: the fields stay in the class body) the fields are defined
\* as undefined on the instance right after super() returns, which discards
\* the cause super() installed and shadows the inherited name.  With
\* [[Set]] semantics (tsc with an older target) the declarations are
\* erased.  The build is the variable defineFields.
FieldsAfterSuper(define, o) ==
    IF define THEN [o EXCEPT !.name = Undef, !.cause = 0] ELSE o

\* A constructor that takes any given string, the empty one too, as the name.
ErrAnyName(define, name, message, cause) ==
    LET s == [cls |-> "Err", name |-> "Error",
              message |-> IF message = Undef THEN "" ELSE message, cause |-> cause,
              ctorName |-> name, ctorCause |-> cause]
        f == FieldsAfterSuper(define, s)
    IN  IF name # Undef THEN [f EXCEPT !.name = name] ELSE f

\* new Err(name, message, cause), second version.
Err(define, name, message, cause) ==
    LET s == [cls |-> "Err", name |-> "Error",
              message |-> IF message = Undef THEN "" ELSE message, cause |-> cause,
              ctorName |-> name, ctorCause |-> cause]
        f == FieldsAfterSuper(define, s)
    IN  IF Truthy(name) THEN [f EXCEPT !.name = name] ELSE f

\* new Err(name, message), first version: no cause parameter.
\* Only `name!: N` is declared there.
ErrV1(define, name, message) ==
    LET s == [cls |-> "Err", name |-> "Error",
              message |-> IF message = Undef THEN "" ELSE message, cause |-> 0,
              ctorName |-> name, ctorCause |-> 0]
        f == IF define THEN [s EXCEPT !.name = Undef] ELSE s
    IN  IF Truthy(name) THEN [f EXCEPT !.name = name] ELSE f

\* ------------------------------------------------------------------ isErr
\* The outcome of a call: out is "return" or "throw", val the value returned
\* or thrown, calls the number of invocations of isErr the call made (1 for
\* the call itself), h the heap it leaves.
Outcome(out, val, n, h) == [out |-> out, val |-> val, calls |-> n, h |-> h]

\* What the engine throws when the call stack is exhausted.
RangeError == [t |-> "RangeError", i |-> 0]

\* A walk that recurses on result instead of result.cause.
RECURSIVE isErrWalkSelf(_, _, _, _)
isErrWalkSelf(h, v, name, depth) ==
    IF depth >= StackLimit THEN Outcome("throw", RangeError, depth, h)
    ELSE IF ~InstanceOfError(h, v) THEN Outcome("return", Bool(FALSE), depth + 1, h)
    ELSE IF name = Undef THEN Outcome("return", Bool(TRUE), depth + 1, h)
    ELSE IF h[v.i].name = name THEN Outcome("return", Bool(TRUE), depth + 1, h)
    ELSE IF h[v.i].cause # 0 /\ InstanceOfError(h, Obj(h[v.i].cause))
         THEN isErrWalkSelf(h, v, name, depth + 1)
    ELSE Outcome("return", Bool(FALSE), depth + 1, h)

\* isErr(result, name), second version: the recursion into result.cause.
\* depth counts the frames of isErr already on the stack.
RECURSIVE isErrWalk(_, _, _, _)
isErrWalk(h, v, name, depth) ==
    IF depth >= StackLimit THEN Outcome("throw", RangeError, depth, h)
    ELSE IF ~InstanceOfError(h, v) THEN Outcome("return", Bool(FALSE), depth + 1, h)
    ELSE IF name = Undef THEN Outcome("return", Bool(TRUE), depth + 1, h)
    ELSE IF h[v.i].name = name THEN Outcome("return", Bool(TRUE), depth + 1, h)
    ELSE IF h[v.i].cause # 0 /\ InstanceOfError(h, Obj(h[v.i].cause))
         THEN isErrWalk(h, Obj(h[v.i].cause), name, depth + 1)
    ELSE Outcome("return", Bool(FALSE), depth + 1, h)

\* An isErr that answers true only on a name match.
isErrNameOnly(h, v, name) ==
    Outcome("return",
            Bool(InstanceOfError(h, v) /\ name # Undef /\ h[v.i].name = name), 1, h)

isErr(h, v, name) == isErrWalk(h, v, name, 0)

\* isErr(value, name), first version: no walk of the causes.
isErrV1(h, v, name) ==
    Outcome("return",
            Bool(InstanceOfError(h, v) /\ (name = Undef \/ h[v.i].name = name)), 1, h)

\* --------------------------------------------------------------------- Ok
\* An Ok that hands every value back.
OkIdentity(h, v) == Outcome("return", v, 1, h)

Ok(h, v) ==
    IF isErr(h, v, Undef).val = Bool(TRUE)
    THEN Outcome("return", Null, 1, h)
    ELSE Outcome("return", v, 1, h)

OkV1(h, v) ==
    IF isErrV1(h, v, Undef).val = Bool(TRUE)
    THEN Outcome("return", Null, 1, h)
    ELSE Outcome("return", v, 1, h)

\* ------------------------------------------------- UnwrapErr and IgnoreErr
\* An UnwrapErr that returns the error instead of throwing it.
UnwrapErrSwallow(h, v) == Outcome("return", v, 0, h)

UnwrapErr(h, v) ==
    IF InstanceOfError(h, v) THEN Outcome("throw", v, 0, h)
    ELSE Outcome("return", v, 0, h)

IgnoreErr(h, v) ==
    IF InstanceOfError(h, v) THEN Outcome("throw", v, 0, h)
    ELSE Outcome("return", v, 0, h)

\* ------------------------------------------------------------- CaptureErr
\* What the wrapped callable does when it is invoked: it returns val, it
\* throws val, or it returns a pending promise ("async") that the
\* environment settles later.
Kinds == {"returns", "throws", "async"}

\* Strict-mode assignment of a property on a primitive throws a TypeError
\* (the module is an ES module, hence strict): the heap gains the TypeError.
ThrowTypeError(h) ==
    Outcome("throw", Obj(Len(h) + 1), 0, Append(h, PlainError("TypeError", "type", 0)))

\* A catch branch that returns the error without attaching the tag.
AttachNothing(define, h, e, name, message) ==
    IF e.t # "obj" THEN ThrowTypeError(h) ELSE Outcome("return", e, 0, h)

\* A catch branch that also gives the captured error the tag as its name.
AttachAndRename(define, h, e, name, message) ==
    IF e.t # "obj" THEN ThrowTypeError(h)
    ELSE Outcome("return", e, 0,
                 [Append(h, Err(define, name, message, 0))
                     EXCEPT ![e.i].cause = Len(h) + 1, ![e.i].name = name])

\* A catch branch that constructs the Err but makes the captured error its
\* own cause.
AttachSelf(define, h, e, name, message) ==
    IF e.t # "obj" THEN ThrowTypeError(h)
    ELSE Outcome("return", e, 0,
                 [Append(h, Err(define, name, message, 0))
                     EXCEPT ![e.i].cause = e.i])

\* The catch branch of the second version, and the body of the continuation
\* it attaches with .catch: capturedError.cause = new Err(name, message);
\* return capturedError.
AttachCause(define, h, e, name, message) ==
    IF e.t # "obj" THEN ThrowTypeError(h)
    ELSE Outcome("return", e, 0,
                 [Append(h, Err(define, name, message, 0))
                     EXCEPT ![e.i].cause = Len(h) + 1])

\* CaptureErr(name, callback, message), second version, for a callable that
\* returns or throws synchronously.
CaptureErr(define, h, name, kind, val, message) ==
    IF kind = "returns" THEN Outcome("return", val, 0, h)
    ELSE AttachCause(define, h, val, name, message)

\* The continuation of the second version: the tag and the message fall
\* back to the captured error's own (name ?? e.name, message ?? e.message).
CatchHandler(define, h, e, name, message) ==
    IF e.t # "obj" THEN ThrowTypeError(h)
    ELSE AttachCause(define, h, e, Coalesce(name, h[e.i].name),
                     Coalesce(message, h[e.i].message))

\* The catch branch and the continuation of the first version:
\* e.name = name ?? e.name; return e.
Rename(h, e, name) ==
    IF e.t # "obj" THEN ThrowTypeError(h)
    ELSE Outcome("return", e, 0, [h EXCEPT ![e.i].name = Coalesce(name, @)])

\* CaptureErr(fn, name)(...args), first version, for a callable that returns
\* or throws synchronously.  The try block returns only in the promise
\* branch: after a plain result the arrow function falls off its end.
CaptureErrV1(h, name, kind, val) ==
    IF kind = "returns" THEN Outcome("return", Undefined, 0, h)
    ELSE Rename(h, val, name)

\* ------------------------------------------------------------------ state
\* A CaptureErr that waits for the callable's promise before it returns:
\* the promise it hands back has a settled source.
AsyncCallAwaited(ver, name, message) ==
    [ver |-> ver, name |-> name, msg |-> message,
     pst |-> "fulfilled", pval |-> Undefined, qst |-> "pending", qval |-> Undefined,
     ran |-> FALSE, left |-> 0]

\* An asynchronous CaptureErr call: p is the promise the callable returned,
\* q the promise CaptureErr returned (p.catch(...)).  ran tells whether the
\* reaction attached by .catch has run; left counts the promise jobs that
\* must still run before q settles when the handler resolved q with a
\* promise.
AsyncCall(ver, name, message) ==
    [ver |-> ver, name |-> name, msg |-> message,
     pst |-> "pending", pval |-> Undefined, qst |-> "pending", qval |-> Undefined,
     ran |-> FALSE, left |-> 0]

\* Heap slots still free, one being kept for each continuation yet to run.
Free(h, c) == MaxObjs - Len(h) - Cardinality({k \in 1..Len(c) : ~c[k].ran})

\* The record of a call and its outcome.
Call(op, ver, arg, name, message, kind, o) ==
    [op |-> op, ver |-> ver, arg |-> arg, name |-> name, msg |-> message,
     kind |-> kind, out |-> o.out, val |-> o.val, calls |-> o.calls]

Values == Prims \cup Objs(heap) \cup Proms(calls)
Throwables == Prims \cup Objs(heap)
Causes == {0} \cup {k \in 1..Len(heap) : InstanceOfError(heap, Obj(k))}
CtorArgs == {<<Undef, Undef>>, <<"", "m">>, <<"A", "m">>, <<"B", "m">>}
Messages == {Undef, "m"}

\* fetchUser has not been called.
NoFetch == <<>>

\* The caller is between two calls: no call is recorded.
Idle == Call("idle", 0, Undefined, Undef, Undef, "none",
             Outcome("return", Undefined, 0, <<>>))

Init ==
    /\ defineFields \in BOOLEAN
    /\ heap = <<>>
    /\ calls = <<>>
    /\ captures = 0
    /\ pre = <<>>
    /\ last = Idle
    /\ fetch = NoFetch

\* The single thread makes one call at a time: a call starts when the
\* caller is between calls, and leaves its heap and the record of it.
Finish(c, o) ==
    /\ last = Idle
    /\ pre' = heap
    /\ heap' = o.h
    /\ last' = c

\* The caller has seen the outcome (caught what was thrown) and goes on.
Continue ==
    /\ last # Idle
    /\ last' = Idle
    /\ pre' = heap
    /\ UNCHANGED <<defineFields, fetch, heap, calls, captures>>

\* new Err(name, message, cause)
NewErr ==
    \E a \in CtorArgs, k \in Causes :
        /\ Free(heap, calls) >= 1
        /\ LET o == Outcome("return", Obj(Len(heap) + 1), 0,
                            Append(heap, Err(defineFields, a[1], a[2], k)))
           IN  Finish(Call("new Err", 2, IF k = 0 THEN Undefined ELSE Obj(k),
                           a[1], a[2], "none", o), o)
        /\ UNCHANGED <<defineFields, fetch, calls, captures>>

\* new Err(name, message), first version
NewErrV1 ==
    \E a \in CtorArgs :
        /\ Free(heap, calls) >= 1
        /\ LET o == Outcome("return", Obj(Len(heap) + 1), 0,
                            Append(heap, ErrV1(defineFields, a[1], a[2])))
           IN  Finish(Call("new Err", 1, Undefined, a[1], a[2], "none", o), o)
        /\ UNCHANGED <<defineFields, fetch, calls, captures>>

\* The caller's own code makes an error (new Error("e", { cause })) or a
\* plain object that a callable may later throw.
NewPlain ==
    \E x \in {PlainError("Error", "e", k) : k \in Causes} \cup {PlainObject} :
        /\ Free(heap, calls) >= 1
        /\ LET o == Outcome("return", Obj(Len(heap) + 1), 0, Append(heap, x))
           IN  Finish(Call("new", 0, Undefined, x.name, x.message, "none", o), o)
        /\ UNCHANGED <<defineFields, fetch, calls, captures>>

IsErrCall ==
    \E v \in Values, n \in QueryNames :
        /\ Finish(Call("isErr", 2, v, n, Undef, "none", isErr(heap, v, n)),
                  isErr(heap, v, n))
        /\ UNCHANGED <<defineFields, fetch, calls, captures>>

IsErrV1Call ==
    \E v \in Values, n \in QueryNames :
        /\ Finish(Call("isErr", 1, v, n, Undef, "none", isErrV1(heap, v, n)),
                  isErrV1(heap, v, n))
        /\ UNCHANGED <<defineFields, fetch, calls, captures>>

OkCall ==
    \E v \in Values :
        /\ Finish(Call("Ok", 2, v, Undef, Undef, "none", Ok(heap, v)), Ok(heap, v))
        /\ UNCHANGED <<defineFields, fetch, calls, captures>>

OkV1Call ==
    \E v \in Values :
        /\ Finish(Call("Ok", 1, v, Undef, Undef, "none", OkV1(heap, v)), OkV1(heap, v))
        /\ UNCHANGED <<defineFields, fetch, calls, captures>>

UnwrapErrCall ==
    \E v \in Values :
        /\ Finish(Call("UnwrapErr", 2, v, Undef, Undef, "none", UnwrapErr(heap, v)),
                  UnwrapErr(heap, v))
        /\ UNCHANGED <<defineFields, fetch, calls, captures>>

IgnoreErrCall ==
    \E v \in Values :
        /\ Finish(Call("IgnoreErr", 1, v, Undef, Undef, "none", IgnoreErr(heap, v)),
                  IgnoreErr(heap, v))
        /\ UNCHANGED <<defineFields, fetch, calls, captures>>

\* CaptureErr(name, callback, message): the whole call.  With a callable
\* that returns a promise the call returns p.catch(...) at once.
CaptureErrCall ==
    \E n \in Tags, m \in Messages, kind \in Kinds, v \in Throwables :
        /\ Free(heap, calls) >= 1
        /\ captures < MaxCaptures
        /\ captures' = captures + 1
        /\ IF kind = "async"
           THEN /\ v = Undefined
                /\ calls' = Append(calls, AsyncCall(2, n, m))
                /\ LET o == Outcome("return", Prom(Len(calls) + 1), 0, heap)
                   IN  Finish(Call("CaptureErr", 2, v, n, m, kind, o), o)
           ELSE /\ calls' = calls
                /\ LET o == CaptureErr(defineFields, heap, n, kind, v, m)
                   IN  Finish(Call("CaptureErr", 2, v, n, m, kind, o), o)
        /\ UNCHANGED <<defineFields, fetch>>

\* CaptureErr(fn, name)(...args), first version: the whole call.
CaptureErrV1Call ==
    \E n \in Tags \cup {Undef}, kind \in Kinds, v \in Throwables :
        /\ Free(heap, calls) >= 1
        /\ captures < MaxCaptures
        /\ captures' = captures + 1
        /\ IF kind = "async"
           THEN /\ v = Undefined
                /\ calls' = Append(calls, AsyncCall(1, n, Undef))
                /\ LET o == Outcome("return", Prom(Len(calls) + 1), 0, heap)
                   IN  Finish(Call("CaptureErr", 1, v, n, Undef, kind, o), o)
           ELSE /\ calls' = calls
                /\ LET o == CaptureErrV1(heap, n, kind, v)
                   IN  Finish(Call("CaptureErr", 1, v, n, Undef, kind, o), o)
        /\ UNCHANGED <<defineFields, fetch>>

\* The promise the callable returned settles: it fulfils with v or rejects
\* with v.
Settle ==
    \E k \in 1..Len(calls), how \in {"fulfilled", "rejected"}, v \in Throwables :
        /\ last = Idle
        /\ calls[k].pst = "pending"
        /\ calls' = [calls EXCEPT ![k].pst = how, ![k].pval = v]
        /\ pre' = heap
        /\ last' = Call("settle", calls[k].ver, v, Undef, Undef, how,
                        Outcome("return", Prom(k), 0, heap))
        /\ UNCHANGED <<defineFields, fetch, heap, captures>>

\* What the continuation attached by .catch does once p has settled: a
\* fulfilment passes through, a rejection runs the handler.
Reaction(define, h, c) ==
    IF c.pst = "fulfilled" THEN Outcome("return", c.pval, 0, h)
    ELSE IF c.ver = 2 THEN CatchHandler(define, h, c.pval, c.name, c.msg)
    ELSE Rename(h, c.pval, c.name)

\* The handler of the second version ends with
\* `return Promise.resolve(capturedError)`: q is resolved with a promise, so
\* it does not settle in the handler's job.  It stays pending through the
\* job that takes the inner promise's `then`, and fulfils in the job after.
ResolvesWithPromise(c, o) == c.ver = 2 /\ c.pst = "rejected" /\ o.out = "return"

ThenableJobs == 2

\* The promise job of q = p.catch(...) runs: the reaction, and with it the
\* handler.  q settles in this job unless the handler returned a promise.
Job ==
    \E k \in 1..Len(calls) :
        /\ calls[k].pst # "pending"
        /\ ~calls[k].ran
        /\ LET o == Reaction(defineFields, heap, calls[k])
           IN  /\ calls' = IF ResolvesWithPromise(calls[k], o)
                           THEN [calls EXCEPT ![k].ran = TRUE, ![k].left = ThenableJobs]
                           ELSE [calls EXCEPT
                                    ![k].ran = TRUE,
                                    ![k].qst = IF o.out = "return" THEN "fulfilled"
                                               ELSE "rejected",
                                    ![k].qval = o.val]
               /\ Finish(Call("job", calls[k].ver, calls[k].pval, calls[k].name,
                              calls[k].msg, calls[k].pst, o), o)
        /\ UNCHANGED <<defineFields, fetch, captures>>

\* One of the promise jobs by which q takes the state of the promise the
\* handler returned (Promise.resolve(capturedError), fulfilled with the
\* captured error): the last of them fulfils q.
Adopt ==
    \E k \in 1..Len(calls) :
        /\ calls[k].ran
        /\ calls[k].qst = "pending"
        /\ calls[k].left >= 1
        /\ calls' = IF calls[k].left = 1
                    THEN [calls EXCEPT ![k].left = 0, ![k].qst = "fulfilled",
                                       ![k].qval = calls[k].pval]
                    ELSE [calls EXCEPT ![k].left = @ - 1]
        /\ LET o == Outcome("return", calls[k].pval, 0, heap)
           IN  Finish(Call("adopt", calls[k].ver, calls[k].pval, calls[k].name,
                           calls[k].msg, calls[k].pst, o), o)
        /\ UNCHANGED <<defineFields, fetch, captures>>

\* The value API: errors are constructed and results are inspected.
Next ==
    \/ NewErr
    \/ NewErrV1
    \/ NewPlain
    \/ IsErrCall
    \/ IsErrV1Call
    \/ OkCall
    \/ OkV1Call
    \/ UnwrapErrCall
    \/ IgnoreErrCall
    \/ Continue

Spec == Init /\ [][Next]_vars

\* The wrapper: errors are constructed, callables are wrapped, and the
\* promises of asynchronous callables settle.
CaptureNext ==
    \/ NewErr
    \/ NewPlain
    \/ CaptureErrCall
    \/ CaptureErrV1Call
    \/ Settle
    \/ Job
    \/ Adopt
    \/ Continue

CaptureSpec == Init /\ [][CaptureNext]_vars

\* The caller always goes on, and the event loop always runs the reaction
\* job of a settled promise.
FairCaptureSpec ==
    CaptureSpec /\ WF_vars(Continue) /\ WF_vars(Job) /\ WF_vars(Adopt)

\* The caller's own code assigns the public field of an error it holds
\* (`e.cause = c`): the field declared by `cause?: Err` is writable, and
\* this is the only way a chain can come to lead back to itself.
SetCause ==
    \E e \in 1..Len(heap), c \in 1..Len(heap) :
        /\ last = Idle
        /\ InstanceOfError(heap, Obj(e))
        /\ InstanceOfError(heap, Obj(c))
        /\ heap' = [heap EXCEPT ![e].cause = c]
        /\ pre' = heap'
        /\ UNCHANGED <<defineFields, fetch, calls, captures, last>>

\* Chains under mutation: errors are constructed, the caller rewires their
\* causes, and isErr walks them.
ChainNext ==
    \/ NewErr
    \/ SetCause
    \/ IsErrCall
    \/ Continue

ChainSpec == Init /\ [][ChainNext]_vars

\* ----------------------------------------------- the README's fetchUser
\* The second example of the README (src/unnamed/part_001), written with
\* the first version of the API: three sources of user data and the chain
\*   Ok(getFromCache(key)) ?? await fetchFromPrimaryDatabase(key)
\*                         ?? await fetchFromBackupDatabase(key).
\* fetchUser and the database functions are async functions: each runs
\* synchronously up to its next await, and any number of calls of fetchUser
\* may be under way at once.  A run of fetchUser is a record: pc is where
\* fetchUser stands, tried the sources it has called, got what they
\* returned, res the value of the chain so far; db is where the database
\* function it awaits stands, how and val the settlement of the promise
\* that function awaits and the value it has in hand.

\* The Response that fetch resolves with.
Response == [t |-> "response", i |-> 0]

\* What res.json() may resolve with: user data, or null for the text "null".
Bodies == {Str1, Null}

\* getFromCache(key): the cached user data, or new Err("CacheMiss").
getFromCache(define, h, hit) ==
    IF hit THEN Outcome("return", Str1, 0, h)
    ELSE Outcome("return", Obj(Len(h) + 1), 0,
                 Append(h, ErrV1(define, "CacheMiss", Undef)))

\* A database function has been called: it has called
\* CaptureErr(fetch, "FetchError")(url) and awaits the promise.
DbCalled(r, src, to) ==
    [r EXCEPT !.pc = to, !.tried = Append(@, src), !.db = "awaitFetch",
              !.how = "pending", !.val = Undefined]

\* `v ?? next operand`: fetchUser has the value v of the source it awaited.
\* A nullish v sends it on to the backup database, which is called at once;
\* any other v is what fetchUser returns.
AfterPrimary(r, v) ==
    LET g == [r EXCEPT !.got = Append(@, v), !.res = v, !.db = "none",
                       !.how = "none", !.val = Undefined]
    IN  IF Nullish(v) THEN DbCalled(g, "backup", "awaitBackup")
        ELSE [g EXCEPT !.pc = "done"]

\* fetchUser(key) is called: it evaluates Ok(getFromCache(key)); a nullish
\* value makes it call fetchFromPrimaryDatabase(key) and await it, any
\* other value is returned at once.
StartFetchUser ==
    \E hit \in BOOLEAN :
        /\ Len(fetch) < MaxFetches
        /\ hit \/ Len(heap) < MaxObjs
        /\ LET c == getFromCache(defineFields, heap, hit)
               a == OkV1(c.h, c.val)
               r == [pc |-> "done", tried |-> <<"cache">>, got |-> <<c.val>>,
                     res |-> a.val, db |-> "none", how |-> "none", val |-> Undefined]
           IN  /\ heap' = c.h
               /\ fetch' = Append(fetch,
                                  IF Nullish(a.val)
                                  THEN DbCalled(r, "primary", "awaitPrimary")
                                  ELSE r)
        /\ pre' = heap
        /\ UNCHANGED <<defineFields, calls, captures, last>>

\* What a failing fetch rejects with is the runtime's choice: the Fetch
\* standard asks for a TypeError, and a runtime may give it the underlying
\* error as its cause (Node: new TypeError("fetch failed", { cause })).
\* The heap after the rejection, the TypeError being its last object.
FetchFailure(h, withCause) ==
    IF withCause
    THEN Append(Append(h, PlainError("Error", "e", 0)),
                PlainError("TypeError", "e", Len(h) + 1))
    ELSE Append(h, PlainError("TypeError", "e", 0))

\* The network settles the promise of fetch: it resolves with a Response,
\* or it rejects with a new TypeError, with or without a cause.
DbFetchSettles ==
    \E k \in 1..Len(fetch), how \in {"fulfilled", "rejected"}, withCause \in BOOLEAN :
        /\ fetch[k].db = "awaitFetch"
        /\ how = "fulfilled" => ~withCause
        /\ how = "rejected" => Len(FetchFailure(heap, withCause)) <= MaxObjs
        /\ heap' = IF how = "rejected" THEN FetchFailure(heap, withCause) ELSE heap
        /\ fetch' = [fetch EXCEPT
               ![k].db = "fetchSettled", ![k].how = how,
               ![k].val = IF how = "rejected" THEN Obj(Len(heap')) ELSE Response]
        /\ pre' = heap
        /\ UNCHANGED <<defineFields, calls, captures, last>>

\* The promise job of CaptureErr's continuation on fetch's promise.
DbFetchJob ==
    \E k \in 1..Len(fetch) :
        /\ fetch[k].db = "fetchSettled"
        /\ LET o == Reaction(defineFields, heap,
                             [AsyncCall(1, "FetchError", Undef) EXCEPT
                                 !.pst = fetch[k].how, !.pval = fetch[k].val])
           IN  /\ heap' = o.h
               /\ fetch' = [fetch EXCEPT ![k].db = "fetchCaptured", ![k].val = o.val]
        /\ pre' = heap
        /\ UNCHANGED <<defineFields, calls, captures, last>>

\* The database function resumes after its first await:
\* `if (isErr(res)) return res;`, else it calls
\* CaptureErr(res.json.bind(res), "JSONParseError")() and awaits that.
DbAfterFetch ==
    \E k \in 1..Len(fetch) :
        /\ fetch[k].db = "fetchCaptured"
        /\ fetch' = IF isErrV1(heap, fetch[k].val, Undef).val = Bool(TRUE)
                    THEN [fetch EXCEPT ![k].db = "returned"]
                    ELSE [fetch EXCEPT ![k].db = "awaitJson", ![k].how = "pending",
                                       ![k].val = Undefined]
        /\ pre' = heap
        /\ UNCHANGED <<defineFields, heap, calls, captures, last>>

\* The promise of res.json() settles: it rejects with a new SyntaxError or
\* resolves with the body.
DbJsonSettles ==
    \E k \in 1..Len(fetch), v \in Bodies \cup {Undefined} :
        /\ fetch[k].db = "awaitJson"
        /\ v = Undefined => Len(heap) < MaxObjs
        /\ heap' = IF v = Undefined
                   THEN Append(heap, PlainError("SyntaxError", "e", 0))
                   ELSE heap
        /\ fetch' = [fetch EXCEPT
               ![k].db = "jsonSettled",
               ![k].how = IF v = Undefined THEN "rejected" ELSE "fulfilled",
               ![k].val = IF v = Undefined THEN Obj(Len(heap) + 1) ELSE v]
        /\ pre' = heap
        /\ UNCHANGED <<defineFields, calls, captures, last>>

\* The promise job of CaptureErr's continuation on the promise of res.json().
DbJsonJob ==
    \E k \in 1..Len(fetch) :
        /\ fetch[k].db = "jsonSettled"
        /\ LET o == Reaction(defineFields, heap,
                             [AsyncCall(1, "JSONParseError", Undef) EXCEPT
                                 !.pst = fetch[k].how, !.pval = fetch[k].val])
           IN  /\ heap' = o.h
               /\ fetch' = [fetch EXCEPT ![k].db = "jsonCaptured", ![k].val = o.val]
        /\ pre' = heap
        /\ UNCHANGED <<defineFields, calls, captures, last>>

\* The database function resumes after its second await: it returns json,
\* be it an error (`if (isErr(json)) return json`) or the user data.
DbAfterJson ==
    \E k \in 1..Len(fetch) :
        /\ fetch[k].db = "jsonCaptured"
        /\ fetch' = [fetch EXCEPT ![k].db = "returned"]
        /\ pre' = heap
        /\ UNCHANGED <<defineFields, heap, calls, captures, last>>

\* fetchUser resumes from `await fetchFromPrimaryDatabase(key)`.
PrimaryAwaited ==
    \E k \in 1..Len(fetch) :
        /\ fetch[k].pc = "awaitPrimary"
        /\ fetch[k].db = "returned"
        /\ fetch' = [fetch EXCEPT ![k] = AfterPrimary(fetch[k], fetch[k].val)]
        /\ pre' = heap
        /\ UNCHANGED <<defineFields, heap, calls, captures, last>>

\* fetchUser resumes from `await fetchFromBackupDatabase(key)`: the value
\* is the value of the chain, and fetchUser returns it.
BackupAwaited ==
    \E k \in 1..Len(fetch) :
        /\ fetch[k].pc = "awaitBackup"
        /\ fetch[k].db = "returned"
        /\ fetch' = [fetch EXCEPT
               ![k].pc = "done", ![k].got = Append(@, fetch[k].val),
               ![k].res = fetch[k].val, ![k].db = "none", ![k].how = "none",
               ![k].val = Undefined]
        /\ pre' = heap
        /\ UNCHANGED <<defineFields, heap, calls, captures, last>>

FetchNext ==
    \/ StartFetchUser
    \/ DbFetchSettles
    \/ DbFetchJob
    \/ DbAfterFetch
    \/ DbJsonSettles
    \/ DbJsonJob
    \/ DbAfterJson
    \/ PrimaryAwaited
    \/ BackupAwaited

FetchSpec == Init /\ [][FetchNext]_vars

\* ------------------------------------------------------------------ claims
\* C1: isErr(value) called without a name returns true exactly when value
\* is an instance of Error, whatever its name or cause (both versions).
C1_IsErrWithoutName ==
    (last.op = "isErr" /\ last.name = Undef) =>
        (last.out = "return" /\ last.val = Bool(InstanceOfError(pre, last.arg)))

\* isErr without a name has answered true for an error named "B" that has
\* a cause.
C1_Witness ==
    /\ last.op = "isErr" /\ last.ver = 2 /\ last.name = Undef
    /\ last.arg.t = "obj" /\ last.val = Bool(TRUE)
    /\ heap[last.arg.i].name = "B" /\ heap[last.arg.i].cause # 0

\* The argument of the last call is an Err built as new Err(T1, "m").
BuiltNoCause(h, v) ==
    /\ v.t = "obj"
    /\ h[v.i].cls = "Err"
    /\ h[v.i].ctorName \in Tags
    /\ h[v.i].message = "m"
    /\ h[v.i].ctorCause = 0

\* C2 as stated: for all tag strings T1 and T2, the empty string included,
\* isErr(new Err(T1, "m"), T2) is true when T1 = T2 and false otherwise.
C2_AsStated ==
    (last.op = "isErr" /\ BuiltNoCause(pre, last.arg) /\ last.name \in Tags \cup {"Error"}) =>
        last.val = Bool(pre[last.arg.i].ctorName = last.name)

\* C2 amended: for every non-empty tag T1 and every string T2,
\* isErr(new Err(T1, "m"), T2) is true exactly when T1 = T2; an Err built
\* with the empty tag does not carry the name "", so
\* isErr(new Err("", "m"), "") is false.
C2_NonEmptyTag ==
    (last.op = "isErr" /\ BuiltNoCause(pre, last.arg) /\ last.name \in Tags \cup {"Error"}) =>
        /\ Truthy(pre[last.arg.i].ctorName) =>
               last.val = Bool(pre[last.arg.i].ctorName = last.name)
        /\ (pre[last.arg.i].ctorName = "" /\ last.name = "") => last.val = Bool(FALSE)

\* isErr(new Err("A", "m"), "A") has answered true.
C2_Witness ==
    /\ last.op = "isErr" /\ last.ver = 2 /\ last.name = "A"
    /\ BuiltNoCause(pre, last.arg)
    /\ pre[last.arg.i].ctorName = "A"
    /\ last.val = Bool(TRUE)

\* The nodes of the chain as it was built: the object and the causes its
\* constructors were given, n links deep at most.
RECURSIVE BuiltChain(_, _, _)
BuiltChain(h, k, n) ==
    IF k = 0 \/ n = 0 THEN {} ELSE {k} \cup BuiltChain(h, h[k].ctorCause, n - 1)

\* C3: for an Err built as new Err(T2, "m", cause) with a cause that is
\* itself an Err, isErr(outer, T) is true for the name T of every node of
\* the chain.
C3_ChainMatch ==
    (/\ last.op = "isErr" /\ last.ver = 2
     /\ last.arg.t = "obj"
     /\ pre[last.arg.i].cls = "Err"
     /\ Truthy(pre[last.arg.i].ctorName)
     /\ pre[last.arg.i].message = "m"
     /\ pre[last.arg.i].ctorCause # 0
     /\ pre[pre[last.arg.i].ctorCause].cls = "Err"
     /\ \E k \in BuiltChain(pre, last.arg.i, Len(pre)) : pre[k].name = last.name) =>
        last.val = Bool(TRUE)

\* C4: Ok(x) returns x itself for a non-failure x and null for a failure,
\* and never throws (both versions).
C4_Ok ==
    last.op = "Ok" =>
        /\ last.out = "return"
        /\ last.val = (IF InstanceOfError(pre, last.arg) THEN Null ELSE last.arg)

\* Ok has returned null for an error.
C4_Witness ==
    /\ last.op = "Ok" /\ last.ver = 2
    /\ InstanceOfError(pre, last.arg)
    /\ last.val = Null

\* C5: UnwrapErr(x) and IgnoreErr(x) return x for a non-failure x; for a
\* failure they throw x itself, its name, message and cause as they were.
C5_Unwrap ==
    last.op \in {"UnwrapErr", "IgnoreErr"} =>
        IF InstanceOfError(pre, last.arg)
        THEN /\ last.out = "throw"
             /\ last.val = last.arg
             /\ heap[last.arg.i] = pre[last.arg.i]
        ELSE /\ last.out = "return"
             /\ last.val = last.arg

\* UnwrapErr has thrown an error named "A" that has a cause.
C5_Witness ==
    /\ last.op = "UnwrapErr" /\ last.out = "throw"
    /\ last.arg.t = "obj"
    /\ heap[last.arg.i].name = "A" /\ heap[last.arg.i].cause # 0

\* The cause chain of a value: the number of its nodes, and whether
\* following the cause links never comes back to a node already visited.
RECURSIVE ChainWalk(_, _, _)
ChainWalk(h, k, seen) ==
    IF k = 0 THEN [len |-> Cardinality(seen), acyclic |-> TRUE]
    ELSE IF k \in seen THEN [len |-> Cardinality(seen), acyclic |-> FALSE]
    ELSE ChainWalk(h, h[k].cause, seen \cup {k})

Chain(h, v) ==
    IF v.t = "obj" THEN ChainWalk(h, v.i, {}) ELSE [len |-> 0, acyclic |-> TRUE]

\* C10: on a value whose cause chain is finite and acyclic isErr returns,
\* after no more recursive calls than the chain has nodes.
C10_IsErrTerminates ==
    (last.op = "isErr" /\ Chain(pre, last.arg).acyclic) =>
        /\ last.out = "return"
        /\ last.calls - 1 <= Chain(pre, last.arg).len

\* isErr has walked a chain of three errors to its end.
C10_Witness ==
    /\ last.op = "isErr" /\ last.ver = 2
    /\ last.out = "return"
    /\ last.calls = 3
    /\ last.val = Bool(FALSE)

\* isErr of the version that made the call.
isErrOf(ver, h, v, name) == IF ver = 1 THEN isErrV1(h, v, name) ELSE isErr(h, v, name)

\* C6: when the wrapped callable completes normally, CaptureErr yields the
\* callable's own result, in both forms: a synchronous return value is
\* returned as is, and a fulfilled promise passes its value on.
C6_ResultUnchanged ==
    /\ (last.op = "CaptureErr" /\ last.kind = "returns") =>
           (last.out = "return" /\ last.val = last.arg)
    /\ (last.op = "job" /\ last.kind = "fulfilled") =>
           (last.out = "return" /\ last.val = last.arg)

\* C7 as stated: when the callable throws an error e, CaptureErr with tag T
\* returns a failure value that isErr(result, T) matches, for every tag T.
C7_AsStated ==
    (/\ last.op = "CaptureErr" /\ last.kind = "throws"
     /\ InstanceOfError(pre, last.arg)
     /\ last.name \in Tags) =>
        /\ last.out = "return"
        /\ InstanceOfError(heap, last.val)
        /\ isErrOf(last.ver, heap, last.val, last.name).val = Bool(TRUE)

\* C7 amended: the same for every tag T, except that the second version
\* with the empty tag returns the error with a cause that does not carry
\* the name "": isErr(result, "") is then false unless the thrown error
\* was itself named "".
C7_NonEmptyTag ==
    (/\ last.op = "CaptureErr" /\ last.kind = "throws"
     /\ InstanceOfError(pre, last.arg)
     /\ last.name \in Tags) =>
        /\ last.out = "return"
        /\ last.val = last.arg
        /\ InstanceOfError(heap, last.val)
        /\ (last.ver = 1 \/ Truthy(last.name)) =>
               isErrOf(last.ver, heap, last.val, last.name).val = Bool(TRUE)
        /\ (last.ver = 2 /\ last.name = "" /\ pre[last.arg.i].name # "") =>
               isErr(heap, last.val, "").val = Bool(FALSE)

\* CaptureErr("A", callback) has returned a thrown error whose own name is
\* not "A": the match is found on the attached cause.
C7_Witness ==
    /\ last.op = "CaptureErr" /\ last.ver = 2 /\ last.kind = "throws"
    /\ last.name = "A" /\ last.out = "return"
    /\ InstanceOfError(pre, last.arg)
    /\ heap[last.val.i].name # "A"
    /\ isErr(heap, last.val, "A").val = Bool(TRUE)

\* C8: when the callable's promise rejects, the promise CaptureErr returned
\* with the (non-empty) tag T fulfils, never rejects, with a failure value
\* that isErr(result, T) matches.
C8_RejectionFulfils ==
    \A k \in 1..Len(calls) :
        (calls[k].pst = "rejected" /\ calls[k].qst # "pending" /\ Truthy(calls[k].name)) =>
            /\ calls[k].qst = "fulfilled"
            /\ isErrOf(calls[k].ver, heap, calls[k].qval, calls[k].name).val = Bool(TRUE)

\* C9: CaptureErr ends in a returned value or a fulfilled promise whatever
\* the callable throws or rejects with, and new Err, isErr and Ok never
\* throw.
C9_NeverThrows ==
    /\ last.op \in {"CaptureErr", "new Err", "isErr", "Ok"} => last.out = "return"
    /\ \A k \in 1..Len(calls) : calls[k].qst # "rejected"

\* The errors met when following the cause links from object k.
RECURSIVE ChainNodes(_, _, _)
ChainNodes(h, k, seen) ==
    IF k = 0 \/ k \in seen THEN seen ELSE ChainNodes(h, h[k].cause, seen \cup {k})

\* C11: on an error whose cause chain is cyclic and a tag that no node of
\* the chain carries, isErr(value, tag) returns false: it terminates with
\* "no match" instead of recursing without end.
C11_CyclicNoMatch ==
    (/\ last.op = "isErr" /\ last.ver = 2
     /\ InstanceOfError(pre, last.arg)
     /\ ~Chain(pre, last.arg).acyclic
     /\ last.name # Undef
     /\ \A k \in ChainNodes(pre, last.arg.i, {}) : pre[k].name # last.name) =>
        (last.out = "return" /\ last.val = Bool(FALSE))

\* C12: new Err(name, message, cause) returns a new object, distinct from
\* the cause, whose cause field refers to the given cause; every object
\* that existed before, the cause included, is left as it was; the
\* construction returns.
C12_NewErr ==
    (last.op = "new Err" /\ last.ver = 2) =>
        /\ last.out = "return"
        /\ last.val = Obj(Len(pre) + 1)
        /\ Len(heap) = Len(pre) + 1
        /\ last.val # last.arg
        /\ last.arg.t = "obj" => heap[last.val.i].cause = last.arg.i
        /\ \A k \in 1..Len(pre) : heap[k] = pre[k]

\* The last step was CaptureErr catching the error object k: the catch
\* branch of a synchronous call, or the continuation of a rejected promise.
Captured(k) ==
    /\ \/ last.op = "CaptureErr" /\ last.kind = "throws"
       \/ last.op = "job" /\ last.kind = "rejected"
    /\ last.arg = Obj(k)

\* C13 as stated: no operation changes the name or the cause of an error
\* that exists.
C13_AsStated ==
    \A k \in 1..Len(pre) :
        heap[k].name = pre[k].name /\ heap[k].cause = pre[k].cause

\* C13 amended: an existing error changes only when CaptureErr captures it,
\* and then in one field only: the second version assigns its cause (the
\* newly constructed Err, replacing any cause it had), the first version
\* assigns its name (the tag, when one was given).  Every other operation
\* and every other error is left as it was.
C13_OnlyCaptureErrRewrites ==
    \A k \in 1..Len(pre) :
        \/ heap[k] = pre[k]
        \/ /\ Captured(k)
           /\ last.out = "return"
           /\ IF last.ver = 2
              THEN /\ Len(heap) = Len(pre) + 1
                   /\ heap[Len(heap)].cls = "Err"
                   /\ heap[k] = [pre[k] EXCEPT !.cause = Len(heap)]
              ELSE /\ Len(heap) = Len(pre)
                   /\ heap[k] = [pre[k] EXCEPT !.name = Coalesce(last.name, @)]

\* The second version of CaptureErr has replaced the cause an error had.
C13_Witness ==
    /\ last.op = "CaptureErr" /\ last.ver = 2 /\ last.kind = "throws"
    /\ last.arg.t = "obj"
    /\ pre[last.arg.i].cause # 0
    /\ heap[last.arg.i].cause # pre[last.arg.i].cause

\* C14: after any sequence of constructions and CaptureErr calls, in either
\* form, synchronous or asynchronous, following the cause links from any
\* error never comes back to an error already visited.
C14_Acyclic ==
    \A k \in 1..Len(heap) : ChainWalk(heap, k, {}).acyclic

\* CaptureErr has attached its Err to an error that is itself the cause of
\* another error: a chain of three.
C14_Witness ==
    /\ last.op \in {"CaptureErr", "job"} /\ last.ver = 2
    /\ last.arg.t = "obj"
    /\ heap[last.arg.i].cause = Len(heap)
    /\ \E k \in 1..Len(heap) :
           /\ heap[k].cause = last.arg.i
           /\ ChainWalk(heap, k, {}).len = 3

\* C15: Ok(x) is the absent marker null exactly when x is a failure, and a
\* caller writing Ok(x) ?? d gets the default only for a failure, also when
\* the success value is null or undefined.
C15_AbsentDistinguished ==
    last.op = "Ok" =>
        /\ last.val = Null <=> InstanceOfError(pre, last.arg)
        /\ Nullish(last.val) <=> InstanceOfError(pre, last.arg)

\* The strings a caller may ask isErr about.
NameStrings == QueryNames \ {Undef}

\* C16 as stated: when the callable throws an error and CaptureErr was
\* given the (non-empty) tag T, the returned value has the name T,
\* isErr(result, T) is true and isErr(result, T2) is false for every other
\* tag T2.
C16_AsStated ==
    (/\ last.op = "CaptureErr" /\ last.kind = "throws"
     /\ InstanceOfError(pre, last.arg)
     /\ Truthy(last.name)) =>
        /\ last.out = "return"
        /\ heap[last.val.i].name = last.name
        /\ \A t \in NameStrings :
               isErrOf(last.ver, heap, last.val, t).val = Bool(t = last.name)

\* C16 amended: with a non-empty tag T and a thrown Error object e, the
\* second version returns e under its own name with a new Err named T as
\* its cause, so isErr(result, T2) is true exactly for T2 = T and for
\* T2 = e's own name; the first version returns e renamed to T, and its
\* isErr(result, T2) is true exactly for T2 = T.  When what was thrown is
\* not an object, CaptureErr throws a TypeError.
C16_TagOnCause ==
    (last.op = "CaptureErr" /\ last.kind = "throws" /\ Truthy(last.name)) =>
        /\ last.arg \in Prims => last.out = "throw"
        /\ InstanceOfError(pre, last.arg) =>
               /\ last.out = "return"
               /\ last.val = last.arg
               /\ IF last.ver = 2
                  THEN /\ heap[last.val.i].name = pre[last.val.i].name
                       /\ heap[last.val.i].cause = Len(pre) + 1
                       /\ Len(heap) = Len(pre) + 1
                       /\ heap[Len(heap)].name = last.name
                       /\ \A t \in NameStrings :
                              isErr(heap, last.val, t).val =
                                  Bool(t \in {last.name, pre[last.val.i].name})
                  ELSE /\ heap[last.val.i].name = last.name
                       /\ \A t \in NameStrings :
                              isErrV1(heap, last.val, t).val = Bool(t = last.name)

\* CaptureErr("A", callback) of the second version has returned a thrown
\* error named "Error": it matches "A" and "Error" and does not match "B".
C16_Witness ==
    /\ last.op = "CaptureErr" /\ last.ver = 2 /\ last.kind = "throws"
    /\ last.name = "A" /\ last.out = "return"
    /\ InstanceOfError(pre, last.arg)
    /\ heap[last.val.i].name = "Error"
    /\ isErr(heap, last.val, "A").val = Bool(TRUE)
    /\ isErr(heap, last.val, "Error").val = Bool(TRUE)
    /\ isErr(heap, last.val, "B").val = Bool(FALSE)

\* C17: an Err constructed without a name, or with the empty name, carries
\* the default name "Error" (both versions), and isErr(new Err(), "Error")
\* is true.
C17_DefaultName ==
    /\ \A k \in 1..Len(heap) :
           (heap[k].cls = "Err" /\ ~Truthy(heap[k].ctorName)) => heap[k].name = "Error"
    /\ (/\ last.op = "isErr" /\ last.name = "Error"
        /\ last.arg.t = "obj"
        /\ pre[last.arg.i].cls = "Err"
        /\ ~Truthy(pre[last.arg.i].ctorName)) => last.val = Bool(TRUE)

\* C18: for the same tag, the same optional message and the same error e,
\* the continuation run after a rejection with e leaves what the catch
\* branch leaves after a synchronous throw of e: the same value, with the
\* same name, message and cause, the attached Err being equal too.
C18_SameTransformation ==
    (last.op = "job" /\ last.kind = "rejected" /\ InstanceOfError(pre, last.arg)) =>
        LET s == IF last.ver = 2
                 THEN CaptureErr(defineFields, pre, last.name, "throws", last.arg, last.msg)
                 ELSE CaptureErrV1(pre, last.name, "throws", last.arg)
        IN  /\ last.out = s.out
            /\ last.val = s.val
            /\ heap = s.h

\* C19: with a callable that returns a pending promise, CaptureErr returns
\* at once: it hands back a pending promise while the callable's promise is
\* still pending and has touched no error; the promise it returned settles
\* only after the callable's, and the tagging runs only in the continuation
\* of a rejection.
C19_ReturnsPending ==
    /\ (last.op = "CaptureErr" /\ last.kind = "async") =>
           /\ last.out = "return"
           /\ last.val = Prom(Len(calls))
           /\ calls[Len(calls)].pst = "pending"
           /\ calls[Len(calls)].qst = "pending"
           /\ heap = pre
    /\ \A k \in 1..Len(calls) : calls[k].qst # "pending" => calls[k].pst # "pending"
    /\ (last.op = "job" /\ heap # pre) => last.kind = "rejected"

\* The caller has constructed an error while the promise of an earlier
\* CaptureErr call was still pending.
C19_Witness ==
    /\ last.op = "new Err"
    /\ Len(calls) >= 1
    /\ calls[1].pst = "pending"
    /\ calls[1].qst = "pending"

\* C20: when the callable raises an error e, CaptureErr returns e with a
\* newly constructed Err as its cause, and e's own name, its message and
\* the cause it had before the call are all still reachable from the
\* returned value.
C20_KeepsDetail ==
    (/\ \/ last.op = "CaptureErr" /\ last.kind = "throws"
        \/ last.op = "job" /\ last.kind = "rejected"
     /\ InstanceOfError(pre, last.arg)) =>
        /\ last.out = "return"
        /\ last.val = last.arg
        /\ heap[last.val.i].cause = Len(pre) + 1
        /\ heap[last.val.i].name = pre[last.val.i].name
        /\ heap[last.val.i].message = pre[last.val.i].message
        /\ pre[last.val.i].cause # 0 =>
               pre[last.val.i].cause \in ChainNodes(heap, last.val.i, {})

\* The source called i-th in run r of fetchUser returned a failure.
SourceFailed(r, i) == InstanceOfError(heap, fetch[r].got[i])

\* C21: every run of fetchUser tries its sources in order: the primary
\* database only after the cache has failed, the backup database whenever
\* the primary database has failed too, and it returns an error only when
\* all three sources have failed.
C21_FallbackOrder ==
    \A r \in 1..Len(fetch) :
        /\ fetch[r].tried \in {<<"cache">>, <<"cache", "primary">>,
                               <<"cache", "primary", "backup">>}
        /\ Len(fetch[r].tried) >= 2 => SourceFailed(r, 1)
        /\ (/\ fetch[r].pc = "done" /\ Len(fetch[r].got) >= 2
            /\ SourceFailed(r, 1) /\ SourceFailed(r, 2)) =>
               Len(fetch[r].tried) = 3
        /\ (fetch[r].pc = "done" /\ InstanceOfError(heap, fetch[r].res)) =>
               /\ Len(fetch[r].got) = 3
               /\ \A i \in 1..3 : SourceFailed(r, i)

====
